---------------------------- MODULE Spec2Model ----------------------------
(***************************************************************************)
(* Model of the accelerator weigher of kcloud-nova                         *)
(* (nova/scheduler/weights/accelerator.py): group-based RC+traits scoring  *)
(* of one host under the sum-fit and product-fit policies; and of the     *)
(* AICHIP driver class of kcloud-cyborg                                    *)
(* (cyborg/accelerator/drivers/aichip/base.py), under SpecDriver.          *)
(*                                                                         *)
(* Numbers.  The scorer computes with Python floats whose values here are  *)
(* integers, EPS, and sums of products of (integer + EPS).  Such a value   *)
(* is kept exactly, as the coefficients c[0], c[1], ... of                 *)
(*      c[0] + c[1]*EPS + c[2]*EPS^2 + ...          (EPS = 1/EPS_INV),     *)
(* or as minus infinity (UNMET_FLOOR).  While every coefficient stays      *)
(* below EPS_INV in absolute value (NumbersExact) the coefficients are the *)
(* base-EPS_INV digits of the value: two values are equal exactly when     *)
(* their coefficients are, and the sign is that of the first non-zero      *)
(* coefficient.  These are the values before binary rounding; Spec64 has   *)
(* the products and the score as the binary64 floats they are.             *)
(***************************************************************************)
EXTENDS Integers, Sequences, FiniteSets, TLC

\* ------------------------------------------------------------------ bounds

\* Largest inventory total (and largest recorded usage) of a provider.
MaxTotal == 2
\* Largest amount a request group asks of one resource class.
MaxAmount == 2

\* ------------------------------------------------------------ names in use

ROOT == "root"
NoParent == "none"
Providers == {"root", "rp1", "rp2"}
NonRoot == Providers \ {ROOT}
\* The order in which the tree lists its providers.
ProviderOrder == <<"root", "rp1", "rp2">>

AICHIP == "CUSTOM_AICHIP"
FPGA == "FPGA"
VCPU == "VCPU"
RCNames == {AICHIP, FPGA, VCPU}

FURIOSA == "CUSTOM_FURIOSA_0000"
OWNER == "OWNER_X"
Traits == {FURIOSA, OWNER}

Policies == {"sum-fit", "product-fit"}

\* rc_pattern's default: (?i)^(CUSTOM_)?(FPGA|PGPU|VGPU|QAT|NIC|SSD|AICHIP)$
\* rc_regex.match(rc) over the names in use (upper case).
AccelBaseNames == {"FPGA", "PGPU", "VGPU", "QAT", "NIC", "SSD", "AICHIP"}
AccelCustomNames ==
    {"CUSTOM_FPGA", "CUSTOM_PGPU", "CUSTOM_VGPU", "CUSTOM_QAT", "CUSTOM_NIC",
     "CUSTOM_SSD", "CUSTOM_AICHIP"}
RcRegexMatch(rc) == rc \in AccelBaseNames \cup AccelCustomNames

AccelRCs == {rc \in RCNames : RcRegexMatch(rc)}

\* ----------------------------------------------------------------- numbers

\* 1 / EPS
EPS_INV == 1000000
\* Highest power of EPS a score can hold: one factor per class of a group.
EpsDeg == Cardinality(AccelRCs)
Degs == 0..EpsDeg

\* The float with value n (an integer).
Fl(n) == [ninf |-> FALSE, c |-> [i \in Degs |-> IF i = 0 THEN n ELSE 0]]
\* Mutant: a sentinel among the finite scores.
UnmetAmongScores == Fl(1)

\* float("-inf")
UNMET_FLOOR == [ninf |-> TRUE, c |-> [i \in Degs |-> 0]]
\* EPS = 1e-6
EPS == [ninf |-> FALSE, c |-> [i \in Degs |-> IF i = 1 THEN 1 ELSE 0]]

FAdd(a, b) ==
    IF a.ninf \/ b.ninf THEN UNMET_FLOOR
    ELSE [ninf |-> FALSE, c |-> [i \in Degs |-> a.c[i] + b.c[i]]]

\* Mutant: the factor without its epsilon, a * n.
FMulIntNoEps(a, n) == [ninf |-> FALSE, c |-> [i \in Degs |-> n * a.c[i]]]

\* a * (n + EPS) for a finite a and an integer n.  The product of k such
\* factors has degree k, and k never exceeds EpsDeg.
FMulIntPlusEps(a, n) ==
    [ninf |-> FALSE,
     c |-> [i \in Degs |-> n * a.c[i] + (IF i = 0 THEN 0 ELSE a.c[i - 1])]]

RECURSIVE FirstNonZero(_, _)
FirstNonZero(c, i) ==
    IF i > EpsDeg THEN 0
    ELSE IF c[i] # 0 THEN c[i]
    ELSE FirstNonZero(c, i + 1)

\* a > 0, a >= b
FPos(a) == ~a.ninf /\ FirstNonZero(a.c, 0) > 0
FGeq(a, b) ==
    \/ b.ninf
    \/ /\ ~a.ninf
       /\ FirstNonZero([i \in Degs |-> a.c[i] - b.c[i]], 0) >= 0

RECURSIVE FSum(_)
\* sum(xs), from 0
FSum(xs) == IF xs = <<>> THEN Fl(0) ELSE FAdd(Head(xs), FSum(Tail(xs)))

\* ------------------------------------------------------------------- state

VARIABLES
    host_state,         \* the HostState weighed: [hostname |-> BOOLEAN]
    placement,          \* what the Placement service answers (see PlacementOK)
    weight_properties,  \* the RequestSpec: [requested_resources |-> raw groups]
    conf,               \* CONF.accelerator_weigher: [policy |-> ...]
    pc,                 \* "idle" before the call, "done" after it returned,
                        \* "raised" after an exception left it
    groups,             \* _weigh_object's local: the extracted groups
    usages_dict,        \* _weigh_object's local: rp_uuid -> {rc: usage}
    stats,              \* the per-call stats dict (the keys modelled)
    result,             \* the value _weigh_object returned
    calls,              \* the calls made so far: what each was given and
                        \* what it gave back
    workers,            \* the scoring calls running side by side, each
                        \* with its own arguments, position and locals
    driver              \* kcloud-cyborg: a call on the AICHIP driver class
                        \* and what came of it

vars ==
    <<host_state, placement, weight_properties, conf, pc, groups, usages_dict,
      stats, result, calls, workers, driver>>

\* No call running beside this one; no call on the driver class.
NoWorkers == <<>>
NoDriver == <<>>

\* A Python dict is a function whose domain is its key set.
EmptyDict == <<>>
DictGet(d, k, default) == IF k \in DOMAIN d THEN d[k] ELSE default

\* ------------------------------------------------ Placement client helpers

\* _lookup_root_rp_uuid: [found, uuid, errors].  found is the truth value of
\* the uuid returned (None when the host has no name, the lookup is not a
\* 200, or it lists no provider).
LookupRootRpUuid(hs, pl) ==
    IF ~hs.hostname
    THEN [found |-> FALSE, uuid |-> NoParent, errors |-> <<"no-hostname">>]
    ELSE IF pl.lookup_status # 200
    THEN [found |-> FALSE, uuid |-> NoParent, errors |-> <<"rp-lookup-failed">>]
    ELSE IF pl.lookup_rps = <<>>
    THEN [found |-> FALSE, uuid |-> NoParent, errors |-> <<"rp-lookup-empty">>]
    ELSE [found |-> TRUE, uuid |-> pl.lookup_rps[1], errors |-> <<>>]

RECURSIVE IsInTreeOf(_, _, _)
\* Whether provider p is root_uuid or one of its descendants (any depth).
IsInTreeOf(parent, p, root_uuid) ==
    IF p = root_uuid THEN TRUE
    ELSE IF parent[p] = NoParent THEN FALSE
    ELSE IsInTreeOf(parent, parent[p], root_uuid)

\* ptree.get_provider_uuids_in_tree(root_uuid): the root and its descendants.
ProviderUuidsInTree(ptree, root_uuid) ==
    SelectSeq(ProviderOrder, LAMBDA p : IsInTreeOf(ptree.parent, p, root_uuid))

\* The ProviderTree the report client hands over: parents, inventories and
\* traits, no usages.
TreeOf(pl) ==
    [parent |-> pl.parent, inventory |-> pl.inventory, traits |-> pl.traits]

\* Mutant: the usages a query names are kept whatever its status.
CollectUsagesAnyStatus(pl, root_uuid) ==
    LET uuids == ProviderUuidsInTree(TreeOf(pl), root_uuid)
        asked == {uuids[i] : i \in 1..Len(uuids)} \ {root_uuid}
    IN  [p \in asked |-> pl.usage[p]]

\* The usage loop of _get_provider_tree_and_usages: one usage query per
\* non-root provider of the tree, kept only when it answers 200.
CollectUsages(pl, root_uuid) ==
    LET uuids == ProviderUuidsInTree(TreeOf(pl), root_uuid)
        asked == {uuids[i] : i \in 1..Len(uuids)} \ {root_uuid}
        kept == {p \in asked : pl.usage_status[p] = 200}
    IN  [p \in kept |-> pl.usage[p]]

\* What the weigher asks of the report client, one record per request:
\* the lookup of the root by name, the fetch of the provider tree, and the
\* usage query of one provider.
LookupRequest == [op |-> "lookup", rp |-> NoParent]
TreeRequest(root_uuid) == [op |-> "tree", rp |-> root_uuid]
UsageRequest(rp_uuid) == [op |-> "usages", rp |-> rp_uuid]

\* The usage queries of _get_provider_tree_and_usages, in the order made:
\* one per provider of the tree but the root.
UsageRequests(pl, root_uuid) ==
    LET asked == SelectSeq(ProviderUuidsInTree(TreeOf(pl), root_uuid),
                           LAMBDA p : p # root_uuid)
    IN  [i \in 1..Len(asked) |-> UsageRequest(asked[i])]

\* Mutant: the tree is taken as fetched whatever the fetch did.
GetTreeIgnoringFailure(pl, root_uuid) ==
    [ok |-> TRUE, usages_dict |-> CollectUsages(pl, root_uuid), errors |-> <<>>,
     requests |-> <<TreeRequest(root_uuid)>> \o UsageRequests(pl, root_uuid)]

\* Mutant: the tree and the usages fetched once more, as for a second group.
GetTreeTwice(pl, root_uuid) ==
    [ok |-> pl.tree_fetch = "ok",
     usages_dict |-> IF pl.tree_fetch = "ok" THEN CollectUsages(pl, root_uuid)
                     ELSE EmptyDict,
     errors |-> IF pl.tree_fetch = "ok" THEN <<>> ELSE <<"get-tree-failed">>,
     requests |-> <<TreeRequest(root_uuid)>> \o UsageRequests(pl, root_uuid)
                  \o <<TreeRequest(root_uuid)>> \o UsageRequests(pl, root_uuid)]

\* _get_provider_tree_and_usages: [ok, usages_dict, errors, requests].  ok is
\* the truth value of the tree returned (None when fetching raises or the
\* root is not in the tree fetched); requests are those made of the client.
GetProviderTreeAndUsages(pl, root_uuid) ==
    IF pl.tree_fetch = "raise"
    THEN [ok |-> FALSE, usages_dict |-> EmptyDict, errors |-> <<"get-tree-failed">>,
          requests |-> <<TreeRequest(root_uuid)>>]
    ELSE IF pl.tree_fetch = "no-root"
    THEN [ok |-> FALSE, usages_dict |-> EmptyDict, errors |-> <<"root-not-in-tree">>,
          requests |-> <<TreeRequest(root_uuid)>>]
    ELSE [ok |-> TRUE, usages_dict |-> CollectUsages(pl, root_uuid), errors |-> <<>>,
          requests |-> <<TreeRequest(root_uuid)>> \o UsageRequests(pl, root_uuid)]

\* Mutant: total - reserved - used returned as it is, not clamped at 0.
GetFreeUnclamped(ptree, rp_uuid, rc_name, usages) ==
    LET inventory == DictGet(ptree.inventory[rp_uuid], rc_name, EmptyDict)
        used == DictGet(DictGet(usages, rp_uuid, EmptyDict), rc_name, 0)
    IN  IF DOMAIN inventory = {} THEN 0
        ELSE DictGet(inventory, "total", 0) - DictGet(inventory, "reserved", 0) - used

\* _get_free_for_rc_from_tree: free units of rc on rp_uuid.  Every provider
\* named is one of the tree, so ptree.data() finds it; "not inventory" holds
\* of a missing entry (None) and of an empty one.
GetFreeForRcFromTree(ptree, rp_uuid, rc_name, usages) ==
    LET inventory == DictGet(ptree.inventory[rp_uuid], rc_name, EmptyDict)
        total == DictGet(inventory, "total", 0)
        reserved == DictGet(inventory, "reserved", 0)
        used == DictGet(DictGet(usages, rp_uuid, EmptyDict), rc_name, 0)
        free == total - reserved - used
    IN  IF DOMAIN inventory = {} THEN 0
        ELSE IF free > 0 THEN free ELSE 0

\* --------------------------------------------------------- request parsing

\* int(amount).  An amount is [kind, num, den]: an int num; a float num/den;
\* a float infinity ("inf"); a str holding the decimal digits of num
\* (den = 1) or no number (den = 0); or None.  int() truncates a float toward
\* zero and raises (ok = FALSE, err the exception's class) ValueError on a
\* non-numeric str, TypeError on None and OverflowError on an infinity.
PyInt(amount) ==
    CASE amount.kind = "int" -> [ok |-> TRUE, v |-> amount.num, err |-> ""]
      [] amount.kind = "float" ->
            [ok |-> TRUE,
             v |-> IF amount.num >= 0 THEN amount.num \div amount.den
                   ELSE -((-amount.num) \div amount.den),
             err |-> ""]
      [] amount.kind = "str" /\ amount.den = 1 ->
            [ok |-> TRUE, v |-> amount.num, err |-> ""]
      [] amount.kind = "str" /\ amount.den # 1 ->
            [ok |-> FALSE, v |-> 0, err |-> "ValueError"]
      [] amount.kind = "inf" -> [ok |-> FALSE, v |-> 0, err |-> "OverflowError"]
      [] OTHER -> [ok |-> FALSE, v |-> 0, err |-> "TypeError"]

\* except (ValueError, TypeError)
Caught(err) == err \in {"ValueError", "TypeError"}

\* Whether the loops of _extract_accel_groups meet an entry of a matching
\* class whose int(amount) raises an exception the except clause does not
\* name: the exception leaves _extract_accel_groups and its caller.
ExtractRaises(raw) ==
    \E i \in 1..Len(raw) :
        \E k \in 1..Len(raw[i].resources) :
            LET e == raw[i].resources[k]
            IN  /\ RcRegexMatch(e.rc)
                /\ ~PyInt(e.amount).ok
                /\ ~Caught(PyInt(e.amount).err)

RECURSIVE AccelResources(_)
\* The inner loop of _extract_accel_groups over one group's resources, kept
\* in the dict's order as a sequence of [rc, amount].
AccelResources(resources) ==
    IF resources = <<>> THEN <<>>
    ELSE LET e == Head(resources)
             rest == AccelResources(Tail(resources))
         IN  IF RcRegexMatch(e.rc) /\ PyInt(e.amount).ok
             THEN <<[rc |-> e.rc, amount |-> PyInt(e.amount).v]>> \o rest
             ELSE rest

RECURSIVE ExtractLoopKeepEmpty(_)
\* Mutant: a group left with no accelerator class is handed on all the same.
ExtractLoopKeepEmpty(raw) ==
    IF raw = <<>> THEN <<>>
    ELSE <<[resources |-> AccelResources(Head(raw).resources),
            required_traits |-> Head(raw).required_traits]>>
         \o ExtractLoopKeepEmpty(Tail(raw))

RECURSIVE ExtractLoopStopAtEmpty(_)
\* Mutant: the loop ends at the first group left with no accelerator class.
ExtractLoopStopAtEmpty(raw) ==
    IF raw = <<>> THEN <<>>
    ELSE LET accel_resources == AccelResources(Head(raw).resources)
         IN  IF accel_resources # <<>>
             THEN <<[resources |-> accel_resources,
                     required_traits |-> Head(raw).required_traits]>>
                  \o ExtractLoopStopAtEmpty(Tail(raw))
             ELSE <<>>

RECURSIVE ExtractLoopReversed(_)
\* Mutant: each group is put in front of the groups found so far.
ExtractLoopReversed(raw) ==
    IF raw = <<>> THEN <<>>
    ELSE LET accel_resources == AccelResources(Head(raw).resources)
             rest == ExtractLoopReversed(Tail(raw))
         IN  IF accel_resources # <<>>
             THEN rest \o <<[resources |-> accel_resources,
                             required_traits |-> Head(raw).required_traits]>>
             ELSE rest

RECURSIVE ExtractLoop(_)
ExtractLoop(raw) ==
    IF raw = <<>> THEN <<>>
    ELSE LET g == Head(raw)
             accel_resources == AccelResources(g.resources)
             rest == ExtractLoop(Tail(raw))
         IN  IF accel_resources # <<>>
             THEN <<[resources |-> accel_resources,
                     required_traits |-> g.required_traits]>> \o rest
             ELSE rest

\* Mutant: groups_out is not made anew by each call: the groups of this
\* request are appended to those the call before left.
ExtractAccelGroupsAccumulating(wp) == groups \o ExtractLoop(wp.requested_resources)

\* _extract_accel_groups: [(resources{rc: amount}, required_traits), ...]
ExtractAccelGroups(wp) == ExtractLoop(wp.requested_resources)

\* ------------------------------------------------- RC+traits computations

\* Mutant: any one of the required traits is enough.
TraitsAnyMatch(required_traits, traits) ==
    required_traits = {} \/ required_traits \cap traits # {}

\* The trait test of _sum_free_for_rc_with_traits, negated there:
\* required_traits and not required_traits.issubset(prov_data.traits)
TraitsSatisfied(required_traits, traits) ==
    ~(required_traits # {} /\ ~(required_traits \subseteq traits))

RECURSIVE SumFreeLoop(_, _, _, _, _, _, _)
\* The provider loop of _sum_free_for_rc_with_traits from position i on.
SumFreeLoop(ptree, root_uuid, rc_name, required_traits, usages, uuids, i) ==
    IF i > Len(uuids) THEN 0
    ELSE LET rp_uuid == uuids[i]
             rest == SumFreeLoop(ptree, root_uuid, rc_name, required_traits,
                                 usages, uuids, i + 1)
         IN  IF rp_uuid = root_uuid THEN rest
             ELSE IF rc_name \notin DOMAIN ptree.inventory[rp_uuid] THEN rest
             ELSE IF ~TraitsSatisfied(required_traits, ptree.traits[rp_uuid])
             THEN rest
             ELSE LET free == GetFreeForRcFromTree(ptree, rp_uuid, rc_name, usages)
                  IN  IF free > 0 THEN free + rest ELSE rest

\* Mutant: the loop does not skip the root provider.
SumFreeWithRoot(ptree, root_uuid, rc_name, required_traits, usages) ==
    SumFreeLoop(ptree, NoParent, rc_name, required_traits, usages,
                ProviderUuidsInTree(ptree, root_uuid), 1)

\* _sum_free_for_rc_with_traits
SumFreeForRcWithTraits(ptree, root_uuid, rc_name, required_traits, usages) ==
    SumFreeLoop(ptree, root_uuid, rc_name, required_traits, usages,
                ProviderUuidsInTree(ptree, root_uuid), 1)

\* The slacks list of _group_slack: free_total - amount per class, in order.
Slacks(ptree, root_uuid, accel_resources, required_traits, usages) ==
    [k \in 1..Len(accel_resources) |->
        SumFreeForRcWithTraits(ptree, root_uuid, accel_resources[k].rc,
                               required_traits, usages)
        - accel_resources[k].amount]

RECURSIVE IntSum(_)
IntSum(xs) == IF xs = <<>> THEN 0 ELSE Head(xs) + IntSum(Tail(xs))

RECURSIVE IntMin(_)
IntMin(xs) ==
    IF Len(xs) = 1 THEN Head(xs)
    ELSE LET m == IntMin(Tail(xs)) IN IF Head(xs) < m THEN Head(xs) ELSE m

\* Mutant: the minimum over the classes instead of the sum.
GroupSlackMin(ptree, root_uuid, accel_resources, required_traits, usages) ==
    LET slacks == Slacks(ptree, root_uuid, accel_resources, required_traits, usages)
    IN  IF slacks = <<>> THEN UNMET_FLOOR ELSE Fl(IntMin(slacks))

\* _group_slack
GroupSlack(ptree, root_uuid, accel_resources, required_traits, usages) ==
    LET slacks == Slacks(ptree, root_uuid, accel_resources, required_traits, usages)
    IN  IF slacks = <<>> THEN UNMET_FLOOR ELSE Fl(IntSum(slacks))

RECURSIVE ProductLoopNoShortCircuit(_, _, _)
\* Mutant: a negative slack is multiplied in like any other.
ProductLoopNoShortCircuit(slacks, k, prod) ==
    IF k > Len(slacks) THEN prod
    ELSE ProductLoopNoShortCircuit(slacks, k + 1, FMulIntPlusEps(prod, slacks[k]))

RECURSIVE ProductLoop(_, _, _)
\* The loop of _group_product from class k on, prod being the product so far.
ProductLoop(slacks, k, prod) ==
    IF k > Len(slacks) THEN prod
    ELSE IF slacks[k] < 0 THEN Fl(0)
    ELSE ProductLoop(slacks, k + 1, FMulIntPlusEps(prod, slacks[k]))

\* Mutant: the product with no class of negative slack short-circuiting it.
GroupProductAllMultiplied(ptree, root_uuid, accel_resources, required_traits, usages) ==
    ProductLoopNoShortCircuit(Slacks(ptree, root_uuid, accel_resources,
                                     required_traits, usages),
                              1, Fl(1))

\* _group_product
GroupProduct(ptree, root_uuid, accel_resources, required_traits, usages) ==
    ProductLoop(Slacks(ptree, root_uuid, accel_resources, required_traits, usages),
                1, Fl(1))

\* ------------------------------------------------------------ main weigher

\* weight_multiplier: the configured multiplier, whatever the host.
WeightMultiplier(cf) == cf.accelerator_weight_multiplier

\* policy in ("sum-fit"): a substring test on "sum-fit"; of the two values
\* the option accepts only "sum-fit" itself passes it.
IsSumFit(policy) == policy = "sum-fit"

\* Mutant: every group slack summed, the negative ones too.
SumFitScoreUnfiltered(group_slacks) == FSum(group_slacks)

\* sum-fit: sum(gs for gs in group_slacks if gs > 0)
SumFitScore(group_slacks) == FSum(SelectSeq(group_slacks, FPos))

\* Mutant: the last group's product instead of the sum.
ProductFitScoreLast(group_products) ==
    IF group_products = <<>> THEN Fl(0) ELSE group_products[Len(group_products)]

\* product-fit: sum(group_products)
ProductFitScore(group_products) == FSum(group_products)

\* Mutant: the policy branch without the unmet test before it.
HostScoreNoUnmetTest(group_slacks, group_products, policy) ==
    IF IsSumFit(policy) THEN SumFitScore(group_slacks)
    ELSE ProductFitScore(group_products)

\* The unmet test and the policy branch that follow the group loop.
HostScore(group_slacks, group_products, policy) ==
    IF \E i \in 1..Len(group_slacks) : group_slacks[i] = UNMET_FLOOR
    THEN UNMET_FLOOR
    ELSE IF IsSumFit(policy) THEN SumFitScore(group_slacks)
    ELSE ProductFitScore(group_products)

\* _weigh_object from the group loop to its return, for the groups gs:
\* [result, stats].
ScoreGroups(ptree, root_uuid, gs, usages, policy, st) ==
    LET group_slacks ==
            [i \in 1..Len(gs) |->
                GroupSlack(ptree, root_uuid, gs[i].resources,
                           gs[i].required_traits, usages)]
        group_products ==
            [i \in 1..Len(gs) |->
                GroupProduct(ptree, root_uuid, gs[i].resources,
                             gs[i].required_traits, usages)]
        score == HostScore(group_slacks, group_products, policy)
    IN  [result |-> score,
         stats |-> st @@ [final_score |-> score, root_rp |-> root_uuid,
                          policy |-> policy, groups_slacks |-> group_slacks,
                          groups_products |-> group_products]]

\* Entries of the raw groups whose class matches and whose int(amount) raises
\* an exception that is caught.
RECURSIVE InvalidAmounts(_)
InvalidAmounts(raw) ==
    IF raw = <<>> THEN 0
    ELSE Len(SelectSeq(Head(raw).resources,
                       LAMBDA e : /\ RcRegexMatch(e.rc)
                                  /\ ~PyInt(e.amount).ok
                                  /\ Caught(PyInt(e.amount).err)))
         + InvalidAmounts(Tail(raw))

\* The stats dict as _weigh_object creates it (the keys modelled).
NewStats == [http_calls |-> 0, errors |-> <<>>]

\* _weigh_object: [raised, result, groups, usages_dict, stats, requests].
\* raised tells that an exception left the call (no value is returned then:
\* result is the value prev); groups, usages_dict and stats are the locals
\* as the call leaves them; requests are those it made of the client.
WeighObjectRun(hs, wp, pl, cf, prev) ==
    LET lk == LookupRootRpUuid(hs, pl)
        st1 == [http_calls |-> IF hs.hostname THEN 1 ELSE 0, errors |-> lk.errors]
        gs == ExtractAccelGroups(wp)
        st2 == st1 @@ [groups_seen |-> Len(wp.requested_resources),
                       invalid_amounts |-> InvalidAmounts(wp.requested_resources),
                       groups_accel |-> Len(gs)]
        tu == GetProviderTreeAndUsages(pl, lk.uuid)
        asked == IF pl.tree_fetch = "ok"
                 THEN Len(ProviderUuidsInTree(TreeOf(pl), lk.uuid)) - 1 ELSE 0
        st3 == [st2 EXCEPT !.http_calls = @ + asked, !.errors = @ \o tu.errors]
        rq1 == IF hs.hostname THEN <<LookupRequest>> ELSE <<>>
    IN  IF ~lk.found
        THEN [raised |-> FALSE, result |-> Fl(0), groups |-> <<>>,
              usages_dict |-> EmptyDict, stats |-> st1, requests |-> rq1]
        ELSE IF ExtractRaises(wp.requested_resources)
        THEN [raised |-> TRUE, result |-> prev, groups |-> <<>>,
              usages_dict |-> EmptyDict,
              stats |-> st1 @@ [groups_seen |-> Len(wp.requested_resources)],
              requests |-> rq1]
        ELSE IF gs = <<>>
        THEN [raised |-> FALSE, result |-> Fl(0), groups |-> gs,
              usages_dict |-> EmptyDict, stats |-> st2, requests |-> rq1]
        ELSE IF ~tu.ok
        THEN [raised |-> FALSE, result |-> Fl(0), groups |-> gs,
              usages_dict |-> EmptyDict, stats |-> st3,
              requests |-> rq1 \o tu.requests]
        ELSE LET sc == ScoreGroups(TreeOf(pl), lk.uuid, gs, tu.usages_dict,
                                   cf.policy, st3)
             IN  [raised |-> FALSE, result |-> sc.result, groups |-> gs,
                  usages_dict |-> tu.usages_dict, stats |-> sc.stats,
                  requests |-> rq1 \o tu.requests]

\* Mutant: the call takes the groups off the request as it reads them.
WeighObjectConsuming ==
    /\ pc = "idle"
    /\ \E r \in {WeighObjectRun(host_state, weight_properties, placement, conf,
                                 result)} :
           /\ result' = r.result
           /\ groups' = r.groups
           /\ usages_dict' = r.usages_dict
           /\ stats' = r.stats
           /\ pc' = IF r.raised THEN "raised" ELSE "done"
           /\ calls' = Append(calls,
                              [host_state |-> host_state,
                               weight_properties |-> weight_properties,
                               placement |-> placement, conf |-> conf,
                               raised |-> r.raised, result |-> r.result,
                               requests |-> r.requests])
    /\ weight_properties' = [requested_resources |-> <<>>]
    /\ UNCHANGED <<host_state, placement, conf, workers, driver>>

\* One scoring call: AcceleratorWeigher._weigh_object(host_state, weight_properties)
WeighObject ==
    /\ pc = "idle"
    /\ \E r \in {WeighObjectRun(host_state, weight_properties, placement, conf,
                                 result)} :
           /\ result' = r.result
           /\ groups' = r.groups
           /\ usages_dict' = r.usages_dict
           /\ stats' = r.stats
           /\ pc' = IF r.raised THEN "raised" ELSE "done"
           /\ calls' = Append(calls,
                              [host_state |-> host_state,
                               weight_properties |-> weight_properties,
                               placement |-> placement, conf |-> conf,
                               raised |-> r.raised, result |-> r.result,
                               requests |-> r.requests])
    /\ UNCHANGED <<host_state, placement, weight_properties, conf, workers, driver>>

\* ------------------------------------------- the score as a binary64 float

(***************************************************************************)
(* The products and the score are Python floats (IEEE 754 binary64).  A    *)
(* finite float that is not negative is kept here as [ninf, m, e]: its     *)
(* value is m * 2^e, with m a natural number of exactly 53 binary digits   *)
(* unless the value is 0 (m = <<>>, e = 0): equal values have equal        *)
(* records.  Every result is rounded to nearest, ties to even.  The values *)
(* in use are far from the ends of the exponent range: no overflow, no     *)
(* subnormal.                                                              *)
(***************************************************************************)
MantissaBits == 53

\* A natural number is written to the base Limb, the least significant
\* digit first and the top digit not 0 (0 is <<>>).  Limb is small enough
\* for a product of two digits, and a column of such products, to be an
\* integer TLC can hold.
Limb == 2^13

RECURSIVE BitLen(_)
\* The number of binary digits of n.
BitLen(n) == IF n = 0 THEN 0 ELSE 1 + BitLen(n \div 2)
LimbBits == BitLen(Limb) - 1

RECURSIVE StripTop(_)
StripTop(a) ==
    IF a = <<>> \/ a[Len(a)] # 0 THEN a ELSE StripTop(SubSeq(a, 1, Len(a) - 1))

RECURSIVE NatLimbs(_)
NatLimbs(n) == IF n = 0 THEN <<>> ELSE <<n % Limb>> \o NatLimbs(n \div Limb)

LimbAt(a, i) == IF i \in 1..Len(a) THEN a[i] ELSE 0
NBits(a) == IF a = <<>> THEN 0 ELSE LimbBits * (Len(a) - 1) + BitLen(a[Len(a)])

\* a div 2^k and a * 2^k
ShiftRight(a, k) ==
    LET q == k \div LimbBits
        r == k % LimbBits
    IN  StripTop([i \in 1..(Len(a) - q) |->
                    (LimbAt(a, i + q) \div 2^r)
                    + (LimbAt(a, i + q + 1) % 2^r) * 2^(LimbBits - r)])
ShiftLeft(a, k) ==
    LET q == k \div LimbBits
        r == k % LimbBits
    IN  StripTop([i \in 1..(Len(a) + q + 1) |->
                    (LimbAt(a, i - q) % 2^(LimbBits - r)) * 2^r
                    + (LimbAt(a, i - q - 1) \div 2^(LimbBits - r))])

\* Bit k of a (bit 0 the lowest), and whether a has a 1 among its k low bits.
BitAt(a, k) == (LimbAt(a, k \div LimbBits + 1) \div 2^(k % LimbBits)) % 2
LowBitsSet(a, k) == ShiftLeft(ShiftRight(a, k), k) # a

RECURSIVE AddLimbs(_, _, _, _)
\* a + b from digit i on, with carry c
AddLimbs(a, b, i, c) ==
    IF i > Len(a) /\ i > Len(b) THEN (IF c > 0 THEN <<c>> ELSE <<>>)
    ELSE LET t == LimbAt(a, i) + LimbAt(b, i) + c
         IN  <<t % Limb>> \o AddLimbs(a, b, i + 1, t \div Limb)

RECURSIVE CarryLimbs(_, _, _)
\* The digits of the number whose columns (not yet below Limb) are cols.
CarryLimbs(cols, k, c) ==
    IF k > Len(cols) THEN NatLimbs(c)
    ELSE LET t == cols[k] + c
         IN  <<t % Limb>> \o CarryLimbs(cols, k + 1, t \div Limb)

\* a * b, a and b not 0
MulLimbs(a, b) ==
    StripTop(CarryLimbs([k \in 1..(Len(a) + Len(b) - 1) |->
                            IntSum([i \in 1..Len(a) |-> a[i] * LimbAt(b, k - i + 1)])],
                        1, 0))

F64Zero == [ninf |-> FALSE, m |-> <<>>, e |-> 0]
F64NegInf == [ninf |-> TRUE, m |-> <<>>, e |-> 0]

\* a * 2^e, a of at most MantissaBits + 1 bits and even if it has that many,
\* with its mantissa brought to MantissaBits bits exactly.
Normal(a, e) ==
    LET n == NBits(a)
    IN  IF a = <<>> THEN F64Zero
        ELSE IF n > MantissaBits
        THEN [ninf |-> FALSE, m |-> ShiftRight(a, n - MantissaBits),
              e |-> e + (n - MantissaBits)]
        ELSE [ninf |-> FALSE, m |-> ShiftLeft(a, MantissaBits - n),
              e |-> e - (MantissaBits - n)]

\* The float nearest to a * 2^e, ties to even.
Round64(a, e) ==
    LET drop == NBits(a) - MantissaBits
    IN  IF drop <= 0 THEN Normal(a, e)
        ELSE LET kept == ShiftRight(a, drop)
                 up == /\ BitAt(a, drop - 1) = 1
                       /\ (LowBitsSet(a, drop - 1) \/ BitAt(kept, 0) = 1)
             IN  Normal(IF up THEN AddLimbs(kept, <<1>>, 1, 0) ELSE kept, e + drop)

\* float(n) for a natural number n below 2^31
F64Int(n) == Normal(NatLimbs(n), 0)
\* EPS = 1e-6 is the float 0x1.0c6f7a0b5ed8dp-20 = 0x10C6F7A0B5ED8D * 2^-72,
\* the mantissa here in its digits to the base Limb.
EPS64 == [ninf |-> FALSE, m |-> <<3469, 1455, 7656, 397, 1>>, e |-> -72]

\* x + y
F64Add(x, y) ==
    IF x.ninf \/ y.ninf THEN F64NegInf
    ELSE IF x.m = <<>> THEN y
    ELSE IF y.m = <<>> THEN x
    ELSE LET e0 == IF x.e < y.e THEN x.e ELSE y.e
         IN  Round64(AddLimbs(ShiftLeft(x.m, x.e - e0), ShiftLeft(y.m, y.e - e0), 1, 0),
                     e0)

\* x * y, x and y finite
F64Mul(x, y) ==
    IF x.m = <<>> \/ y.m = <<>> THEN F64Zero
    ELSE Round64(MulLimbs(x.m, y.m), x.e + y.e)

RECURSIVE F64SumFrom(_, _, _)
\* sum(xs): the builtin adds from the left, starting from 0.
F64SumFrom(xs, k, acc) ==
    IF k > Len(xs) THEN acc ELSE F64SumFrom(xs, k + 1, F64Add(acc, xs[k]))
F64Sum(xs) == F64SumFrom(xs, 1, F64Zero)

RECURSIVE ProductLoop64(_, _, _)
\* The loop of _group_product in floats: prod *= (slack + EPS)
ProductLoop64(slacks, k, prod) ==
    IF k > Len(slacks) THEN prod
    ELSE IF slacks[k] < 0 THEN F64Zero
    ELSE ProductLoop64(slacks, k + 1,
                       F64Mul(prod, F64Add(F64Int(slacks[k]), EPS64)))

\* _group_product in floats.  The slacks are floats holding integers (sums
\* and differences of integers far below 2^53), exact as integers.
GroupProduct64(ptree, root_uuid, accel_resources, required_traits, usages) ==
    ProductLoop64(Slacks(ptree, root_uuid, accel_resources, required_traits, usages),
                  1, F64Int(1))

\* The unmet test and the policy branch in floats; the group slacks, being
\* integers or UNMET_FLOOR, come as GroupSlack gives them.
HostScore64(group_slacks, group_products, policy) ==
    IF \E i \in 1..Len(group_slacks) : group_slacks[i] = UNMET_FLOOR
    THEN F64NegInf
    ELSE IF IsSumFit(policy)
    THEN LET pos == SelectSeq(group_slacks, FPos)
         IN  F64Sum([i \in 1..Len(pos) |-> F64Int(pos[i].c[0])])
    ELSE F64Sum(group_products)

\* The group loop and the score of _weigh_object in floats, for the groups gs.
ScoreGroups64(ptree, root_uuid, gs, usages, policy) ==
    HostScore64([i \in 1..Len(gs) |->
                    GroupSlack(ptree, root_uuid, gs[i].resources,
                               gs[i].required_traits, usages)],
                [i \in 1..Len(gs) |->
                    GroupProduct64(ptree, root_uuid, gs[i].resources,
                                   gs[i].required_traits, usages)],
                policy)

\* ---------------------------------- kcloud-cyborg: the AICHIP driver class
\* cyborg/accelerator/drivers/aichip/base.py.  A driver class is
\* [name, VENDOR]; cls.__subclasses__() is the sequence of the subclasses
\* defined so far (those whose modules were imported), in order.

BaseDriver == "AICHIPDriver"
\* FuriosaAICHIPDriver (furiosa/driver.py)
FuriosaAICHIPDriver == [name |-> "FuriosaAICHIPDriver", VENDOR |-> "furiosa"]

\* utils.VENDOR_MAPS.get(vendor, vendor)
VendorName(vendor_maps, vendor) == DictGet(vendor_maps, vendor, vendor)

\* Mutant: the first subclass, whatever the vendor asked for.
CreateAnyDriver(subclasses, vendor_maps, vendor) ==
    IF subclasses = <<>>
    THEN [raised |-> "LookupError", instance |-> "none"]
    ELSE [raised |-> "none", instance |-> Head(subclasses).name]

RECURSIVE Create(_, _, _)
\* AICHIPDriver.create(vendor): [raised, instance].  The loop over the
\* subclasses returns an instance of the first whose VENDOR is the vendor's
\* name; LookupError when the loop ends.
Create(subclasses, vendor_maps, vendor) ==
    IF subclasses = <<>>
    THEN [raised |-> "LookupError", instance |-> "none"]
    ELSE IF VendorName(vendor_maps, vendor) = Head(subclasses).VENDOR
    THEN [raised |-> "none", instance |-> Head(subclasses).name]
    ELSE Create(Tail(subclasses), vendor_maps, vendor)

\* discover() of an instance of class cls: the base class raises, a vendor's
\* class overrides it and returns its list of devices.
Discover(cls) ==
    IF cls = BaseDriver
    THEN [raised |-> "NotImplementedError", instance |-> cls]
    ELSE [raised |-> "none", instance |-> cls]

\* ------------------------------------------------------- the inputs in use

TraitSets == {{}, {FURIOSA}, {FURIOSA, OWNER}}

Inv(t, r) == [total |-> t, reserved |-> r]
Amt(n) == [kind |-> "int", num |-> n, den |-> 1]
Res(rc, amount) == [rc |-> rc, amount |-> amount]

\* The compute node itself holds accelerator inventory too, all of it free.
RootInventory == (AICHIP :> Inv(MaxTotal, 0)) @@ (VCPU :> Inv(MaxTotal, 0))

\* A non-root provider: [parent, inventory, traits, usage_status, usage].
\* rp1 in every shape of one AICHIP inventory: any total, reserved 0 or 1
\* (above the total too), any trait set, and either a usage query answering
\* 200 with no usage or any usage up to MaxTotal (above the capacity too),
\* or a usage query failing (500) while all of MaxTotal is in use.
Rp1Usages ==
    {[usage_status |-> 200, usage |-> u] :
        u \in {EmptyDict} \cup {(AICHIP :> n) : n \in 0..MaxTotal}}
    \cup {[usage_status |-> 500, usage |-> (AICHIP :> MaxTotal)]}
Rp1Shapes ==
    {[parent |-> ROOT, inventory |-> (AICHIP :> Inv(t, r)), traits |-> ts,
      usage_status |-> us.usage_status, usage |-> us.usage] :
        t \in 0..MaxTotal, r \in 0..1, ts \in TraitSets, us \in Rp1Usages}

\* rp2: without inventory, with AICHIP, with FPGA, or with an FPGA entry
\* that names no reserved amount; a child of the root, a grandchild (under
\* rp1), or a provider outside the root's tree.
Rp2Shapes ==
    {[parent |-> par, inventory |-> sh.inventory, traits |-> sh.traits,
      usage_status |-> 200, usage |-> sh.usage] :
        par \in {ROOT, "rp1", NoParent},
        sh \in {[inventory |-> EmptyDict, traits |-> {}, usage |-> EmptyDict],
                [inventory |-> (AICHIP :> Inv(1, 0)), traits |-> {FURIOSA, OWNER},
                 usage |-> (AICHIP :> 0)],
                [inventory |-> (FPGA :> Inv(MaxTotal, 0)), traits |-> {FURIOSA},
                 usage |-> (FPGA :> 0)],
                [inventory |-> (FPGA :> [total |-> 1]), traits |-> {},
                 usage |-> (FPGA :> MaxTotal)]}}

\* Placement answering every query, with the tree made of rp1 and rp2.
PlacementOf(rp1, rp2) ==
    [lookup_status |-> 200, lookup_rps |-> <<ROOT>>, tree_fetch |-> "ok",
     parent |-> (ROOT :> NoParent) @@ ("rp1" :> rp1.parent) @@ ("rp2" :> rp2.parent),
     inventory |-> (ROOT :> RootInventory) @@ ("rp1" :> rp1.inventory)
                   @@ ("rp2" :> rp2.inventory),
     traits |-> (ROOT :> {}) @@ ("rp1" :> rp1.traits) @@ ("rp2" :> rp2.traits),
     usage_status |-> (ROOT :> 200) @@ ("rp1" :> rp1.usage_status)
                      @@ ("rp2" :> rp2.usage_status),
     usage |-> (ROOT :> EmptyDict) @@ ("rp1" :> rp1.usage) @@ ("rp2" :> rp2.usage)]

AllPlacements == {PlacementOf(a, b) : a \in Rp1Shapes, b \in Rp2Shapes}

\* A few trees, for the requests of many shapes: rp1 with 0, 1 or MaxTotal
\* free AICHIP units, rp2 with FPGA or AICHIP.
FewPlacements ==
    {PlacementOf(a, b) :
        a \in {x \in Rp1Shapes :
                 /\ x.usage_status = 200 /\ x.traits = {FURIOSA}
                 /\ x.inventory[AICHIP].reserved = 0
                 /\ x.inventory[AICHIP].total = MaxTotal
                 /\ x.usage \in {(AICHIP :> 0), (AICHIP :> MaxTotal - 1),
                                 (AICHIP :> MaxTotal)}},
        b \in {x \in Rp2Shapes :
                 /\ x.parent = ROOT
                 /\ \E rc \in DOMAIN x.inventory :
                       "reserved" \in DOMAIN x.inventory[rc]}}

\* Placement failing in one way: the lookup is not a 200, lists no provider,
\* fetching the tree raises, or the tree fetched lacks the root.
OnePlacement == CHOOSE pl \in FewPlacements : TRUE
FailingPlacements ==
    {[OnePlacement EXCEPT !.lookup_status = 404],
     [OnePlacement EXCEPT !.lookup_rps = <<>>],
     [OnePlacement EXCEPT !.tree_fetch = "raise"],
     [OnePlacement EXCEPT !.tree_fetch = "no-root"]}

\* Raw request groups: [resources |-> <<[rc, amount], ...>>, required_traits].
Amounts == 1..MaxAmount
OneClass == {<<Res(rc, Amt(n))>> : rc \in {AICHIP, FPGA}, n \in Amounts}
TwoClasses ==
    {<<Res(AICHIP, Amt(a)), Res(FPGA, Amt(b))>> : a \in Amounts, b \in Amounts}
    \cup {<<Res(FPGA, Amt(b)), Res(AICHIP, Amt(a))>> : a \in Amounts, b \in Amounts}
\* No accelerator class, a class beside the accelerator's, and amounts that
\* are zero, fractional (2.5), infinite, not a number, or None.
OddResources ==
    {<<>>,
     <<Res(FPGA, Amt(1)), Res(AICHIP, [kind |-> "inf", num |-> 0, den |-> 1])>>,
     <<Res(VCPU, Amt(1))>>,
     <<Res(VCPU, Amt(1)), Res(AICHIP, Amt(1))>>,
     <<Res(AICHIP, Amt(0))>>,
     <<Res(AICHIP, [kind |-> "float", num |-> 5, den |-> 2])>>,
     <<Res(AICHIP, [kind |-> "none", num |-> 0, den |-> 1]), Res(FPGA, Amt(1))>>,
     <<Res(FPGA, [kind |-> "str", num |-> 0, den |-> 0])>>}

RawGroup(rs, ts) == [resources |-> rs, required_traits |-> ts]

\* One group asking for AICHIP, under every trait set; or for both classes.
SimpleRequests ==
    {<<RawGroup(<<Res(AICHIP, Amt(n))>>, ts)>> : n \in Amounts, ts \in TraitSets}
    \cup {<<RawGroup(<<Res(AICHIP, Amt(1)), Res(FPGA, Amt(1))>>, {})>>}

ManyGroups ==
    {RawGroup(rs, ts) : rs \in OneClass \cup TwoClasses \cup OddResources,
                        ts \in {{}, {FURIOSA, OWNER}}}
FewGroups ==
    {RawGroup(<<Res(AICHIP, Amt(n))>>, ts) : n \in Amounts,
                                             ts \in {{}, {FURIOSA, OWNER}}}
    \cup {RawGroup(<<Res(FPGA, Amt(1))>>, {}),
          RawGroup(<<Res(AICHIP, Amt(1)), Res(FPGA, Amt(1))>>, {})}
\* No group, one group, or two groups (any group beside one of a few, in
\* either order).
ManyRequests ==
    {<<>>} \cup {<<g>> : g \in ManyGroups}
    \cup {<<g, h>> : g \in ManyGroups, h \in FewGroups}
    \cup {<<h, g>> : g \in ManyGroups, h \in FewGroups}

\* ----------------------------------------------------------- specification

Idle ==
    /\ pc = "idle"
    /\ groups = <<>>
    /\ usages_dict = EmptyDict
    /\ stats = NewStats
    /\ result = Fl(0)
    /\ calls = <<>>
    /\ workers = NoWorkers
    /\ driver = NoDriver

Init ==
    /\ conf \in [policy : Policies]
    /\ \/ /\ host_state = [hostname |-> TRUE]
          /\ placement \in AllPlacements
          /\ weight_properties \in [requested_resources : SimpleRequests]
       \/ /\ host_state = [hostname |-> TRUE]
          /\ placement \in FewPlacements
          /\ weight_properties \in [requested_resources : ManyRequests]
       \/ /\ host_state = [hostname |-> TRUE]
          /\ placement \in FailingPlacements
          /\ weight_properties \in [requested_resources : SimpleRequests]
       \/ /\ host_state = [hostname |-> FALSE]
          /\ placement = OnePlacement
          /\ weight_properties \in [requested_resources : SimpleRequests]
    /\ Idle

Next == WeighObject

Spec == Init /\ [][Next]_vars

\* The scoring core applied to a list of groups handed over as it is (the
\* step of _weigh_object after extraction), groups with no class included.
CoreResources ==
    {<<>>} \cup {<<[rc |-> AICHIP, amount |-> n]>> : n \in Amounts}
    \cup {<<[rc |-> AICHIP, amount |-> a], [rc |-> FPGA, amount |-> b]>> :
            a \in Amounts, b \in Amounts}
CoreGroups ==
    {[resources |-> rs, required_traits |-> ts] :
        rs \in CoreResources, ts \in {{}, {FURIOSA, OWNER}}}
CoreGroupLists ==
    {<<g>> : g \in CoreGroups} \cup {<<g, h>> : g \in CoreGroups, h \in CoreGroups}

InitCore ==
    /\ conf \in [policy : Policies]
    /\ host_state = [hostname |-> TRUE]
    /\ placement \in FewPlacements
    /\ weight_properties = [requested_resources |-> <<>>]
    /\ pc = "extracted"
    /\ groups \in CoreGroupLists
    /\ usages_dict = EmptyDict
    /\ stats = NewStats
    /\ result = Fl(0)
    /\ calls = <<>>
    /\ workers = NoWorkers
    /\ driver = NoDriver

\* _weigh_object from the tree fetch on, for the groups in hand.
ScoreExtracted ==
    /\ pc = "extracted"
    /\ \E tu \in {GetProviderTreeAndUsages(placement, ROOT)} :
       \E sc \in {ScoreGroups(TreeOf(placement), ROOT, groups, tu.usages_dict,
                               conf.policy, NewStats)} :
           /\ tu.ok
           /\ result' = sc.result
           /\ stats' = sc.stats
           /\ usages_dict' = tu.usages_dict
    /\ pc' = "done"
    /\ UNCHANGED <<host_state, placement, weight_properties, conf, groups, calls,
                   workers, driver>>

NextCore == ScoreExtracted

SpecCore == InitCore /\ [][NextCore]_vars

\* The call with its score taken as the float it is: requests of three
\* groups, on the trees of FewPlacements.
FloatGroups ==
    {RawGroup(<<Res(AICHIP, Amt(n))>>, {}) : n \in Amounts}
    \cup {RawGroup(<<Res(FPGA, Amt(1))>>, {}),
          RawGroup(<<Res(AICHIP, Amt(1)), Res(FPGA, Amt(1))>>, {})}
FloatRequests == {<<g, h, k>> : g \in FloatGroups, h \in FloatGroups, k \in FloatGroups}

Init64 ==
    /\ conf \in [policy : Policies]
    /\ host_state = [hostname |-> TRUE]
    /\ placement \in FewPlacements
    /\ weight_properties \in [requested_resources : FloatRequests]
    /\ pc = "idle"
    /\ groups = <<>>
    /\ usages_dict = EmptyDict
    /\ stats = NewStats
    /\ result = F64Zero
    /\ calls = <<>>
    /\ workers = NoWorkers
    /\ driver = NoDriver

\* One scoring call, result being the float returned.
WeighObject64 ==
    /\ pc = "idle"
    /\ \E r \in {WeighObjectRun(host_state, weight_properties, placement, conf,
                                 result)} :
       \E score \in {IF r.raised THEN result
                      ELSE IF "final_score" \in DOMAIN r.stats
                      THEN ScoreGroups64(TreeOf(placement), r.stats.root_rp,
                                         r.groups, r.usages_dict, conf.policy)
                      ELSE F64Zero} :
           /\ result' = score
           /\ groups' = r.groups
           /\ usages_dict' = r.usages_dict
           /\ stats' = r.stats
           /\ pc' = IF r.raised THEN "raised" ELSE "done"
           /\ calls' = Append(calls,
                              [host_state |-> host_state,
                               weight_properties |-> weight_properties,
                               placement |-> placement, conf |-> conf,
                               raised |-> r.raised, result |-> score,
                               requests |-> r.requests])
    /\ UNCHANGED <<host_state, placement, weight_properties, conf, workers, driver>>

Next64 == WeighObject64

Spec64 == Init64 /\ [][Next64]_vars

\* Call after call on one weigher: each call may come for another request,
\* after Placement's data or the configured policy changed.
MaxCalls == 3

CallPlacements ==
    {pl \in FewPlacements :
        /\ FPGA \in DOMAIN pl.inventory["rp2"]
        /\ pl.usage["rp1"][AICHIP] \in {0, MaxTotal}}
CallRequests ==
    [requested_resources :
        {<<RawGroup(<<Res(AICHIP, Amt(1))>>, {})>>,
         <<RawGroup(<<Res(AICHIP, Amt(1))>>, {}),
           RawGroup(<<Res(AICHIP, Amt(1)), Res(FPGA, Amt(1))>>, {FURIOSA})>>}]

InitCalls ==
    /\ conf \in [policy : Policies]
    /\ host_state = [hostname |-> TRUE]
    /\ placement \in CallPlacements
    /\ weight_properties \in CallRequests
    /\ Idle

\* The scheduler comes to weigh the host again.
NextCall ==
    /\ pc \in {"done", "raised"}
    /\ Len(calls) < MaxCalls
    /\ pc' = "idle"
    /\ conf' \in [policy : Policies]
    /\ placement' \in CallPlacements
    /\ weight_properties' \in CallRequests
    /\ UNCHANGED <<host_state, groups, usages_dict, stats, result, calls,
                   workers, driver>>

NextCalls == WeighObject \/ NextCall

SpecCalls == InitCalls /\ [][NextCalls]_vars

\* Host after host weighed in one scheduling run, the scoring step being
\* handed each host's groups as they are (groups with no class included),
\* under one configuration: a policy and a multiplier.  The option is a
\* FloatOpt with no min and no max: it takes negative values and 0.0 as it
\* takes the default 1.0.
MaxHosts == 2

Multipliers == {-1, 0, 1, 2}
HostConfs == [policy : Policies, accelerator_weight_multiplier : Multipliers]
HostGroupLists ==
    {<<[resources |-> rs, required_traits |-> {}]>> :
        rs \in {<<>>, <<[rc |-> AICHIP, amount |-> 1], [rc |-> FPGA, amount |-> 1]>>}
               \cup {<<[rc |-> AICHIP, amount |-> n]>> : n \in Amounts}}
    \cup {<<[resources |-> <<[rc |-> AICHIP, amount |-> 1]>>, required_traits |-> {}],
            [resources |-> <<>>, required_traits |-> {}]>>}

InitHosts ==
    /\ conf \in HostConfs
    /\ host_state = [hostname |-> TRUE]
    /\ placement \in CallPlacements
    /\ weight_properties = [requested_resources |-> <<>>]
    /\ pc = "extracted"
    /\ groups \in HostGroupLists
    /\ usages_dict = EmptyDict
    /\ stats = NewStats
    /\ result = Fl(0)
    /\ calls = <<>>
    /\ workers = NoWorkers
    /\ driver = NoDriver

\* _weigh_object from the tree fetch on, for the groups of the host in hand;
\* the score goes to the scheduler's list.
ScoreHost ==
    /\ pc = "extracted"
    /\ \E tu \in {GetProviderTreeAndUsages(placement, ROOT)} :
       \E sc \in {ScoreGroups(TreeOf(placement), ROOT, groups, tu.usages_dict,
                               conf.policy, NewStats)} :
           /\ tu.ok
           /\ result' = sc.result
           /\ stats' = sc.stats
           /\ usages_dict' = tu.usages_dict
           /\ calls' = Append(calls,
                              [host_state |-> host_state, groups |-> groups,
                               placement |-> placement, conf |-> conf,
                               raised |-> FALSE, result |-> sc.result])
    /\ pc' = "done"
    /\ UNCHANGED <<host_state, placement, weight_properties, conf, groups,
                   workers, driver>>

\* The scheduler turns to the next host of its list.
NextHost ==
    /\ pc = "done"
    /\ Len(calls) < MaxHosts
    /\ pc' = "extracted"
    /\ placement' \in CallPlacements
    /\ groups' \in HostGroupLists
    /\ UNCHANGED <<host_state, weight_properties, conf, usages_dict, stats, result,
                   calls, workers, driver>>

NextHosts == ScoreHost \/ NextHost

SpecHosts == InitHosts /\ [][NextHosts]_vars

\* Scoring calls running side by side, one per worker of the scheduler's
\* pool, each for its own host and request, over the one CONF and the one
\* report client.  A call advances a statement of _weigh_object at a time
\* and the calls' steps interleave freely.  workers[w] holds the call of
\* worker w: its arguments, what Placement answers about its host, where it
\* stands (pc) and its locals.
MaxWorkers == 2

Workers == 1..MaxWorkers

WorkerPlacements == CallPlacements \cup {[OnePlacement EXCEPT !.tree_fetch = "raise"]}
NewWorker(pl, wp) ==
    [pc |-> "start", host_state |-> [hostname |-> TRUE], weight_properties |-> wp,
     placement |-> pl, root_uuid |-> NoParent, groups |-> <<>>,
     ptree |-> <<>>, usages_dict |-> EmptyDict,
     group_slacks |-> <<>>, group_products |-> <<>>,
     stats |-> NewStats, raised |-> FALSE, result |-> Fl(0)]

InitWorkers ==
    /\ conf \in [policy : Policies]
    /\ workers \in [Workers -> {NewWorker(pl, wp) : pl \in WorkerPlacements,
                                                     wp \in CallRequests}]
    /\ host_state = [hostname |-> TRUE]
    /\ placement = OnePlacement
    /\ weight_properties = [requested_resources |-> <<>>]
    /\ pc = "idle"
    /\ groups = <<>>
    /\ usages_dict = EmptyDict
    /\ stats = NewStats
    /\ result = Fl(0)
    /\ calls = <<>>
    /\ driver = NoDriver

\* What worker w's statement writes: its own record and nothing else.
Writes(w, rec) ==
    /\ workers' = [workers EXCEPT ![w] = rec]
    /\ UNCHANGED <<host_state, placement, weight_properties, conf, pc, groups,
                   usages_dict, stats, result, calls, driver>>

\* Mutant: the tree and the usages of the call running beside this one,
\* once it has fetched them.
SnapshotOfNeighbour(w) ==
    LET v == IF workers[(w % MaxWorkers) + 1].ptree # <<>>
             THEN (w % MaxWorkers) + 1 ELSE w
    IN  [ptree |-> workers[v].ptree, usages_dict |-> workers[v].usages_dict]

\* The locals ptree and usages_dict of worker w's call.
OwnSnapshot(w) ==
    [ptree |-> workers[w].ptree, usages_dict |-> workers[w].usages_dict]

\* root_uuid = _lookup_root_rp_uuid(...) and the return that follows it.
LookupStep(w) ==
    /\ workers[w].pc = "start"
    /\ \E lk \in {LookupRootRpUuid(workers[w].host_state, workers[w].placement)} :
           Writes(w, [workers[w] EXCEPT
                        !.stats = [http_calls |-> IF workers[w].host_state.hostname
                                                  THEN 1 ELSE 0,
                                   errors |-> lk.errors],
                        !.root_uuid = lk.uuid,
                        !.pc = IF lk.found THEN "extract" ELSE "done"])

\* groups = _extract_accel_groups(...) and the return that follows it.
ExtractStep(w) ==
    /\ workers[w].pc = "extract"
    /\ \E raw \in {workers[w].weight_properties.requested_resources} :
       \E gs \in {ExtractAccelGroups(workers[w].weight_properties)} :
           IF ExtractRaises(raw)
           THEN Writes(w, [workers[w] EXCEPT
                             !.stats = @ @@ [groups_seen |-> Len(raw)],
                             !.raised = TRUE, !.pc = "raised"])
           ELSE Writes(w, [workers[w] EXCEPT
                             !.stats = @ @@ [groups_seen |-> Len(raw),
                                             invalid_amounts |-> InvalidAmounts(raw),
                                             groups_accel |-> Len(gs)],
                             !.groups = gs,
                             !.pc = IF gs = <<>> THEN "done" ELSE "fetch"])

\* ptree, usages_dict = _get_provider_tree_and_usages(...) and the return
\* that follows it.
FetchStep(w) ==
    /\ workers[w].pc = "fetch"
    /\ \E tu \in {GetProviderTreeAndUsages(workers[w].placement,
                                           workers[w].root_uuid)} :
           Writes(w, [workers[w] EXCEPT
                        !.stats = [@ EXCEPT
                                     !.http_calls =
                                         @ + Len(SelectSeq(tu.requests,
                                                 LAMBDA q : q.op = "usages")),
                                     !.errors = @ \o tu.errors],
                        !.ptree = IF tu.ok THEN TreeOf(workers[w].placement) ELSE <<>>,
                        !.usages_dict = tu.usages_dict,
                        !.pc = IF tu.ok THEN "loop" ELSE "done"])

\* One turn of the group loop: the slack and the product of the next group.
GroupStep(w) ==
    /\ workers[w].pc = "loop"
    /\ Len(workers[w].group_slacks) < Len(workers[w].groups)
    /\ \E g \in {workers[w].groups[Len(workers[w].group_slacks) + 1]} :
       \E sn \in {OwnSnapshot(w)} :
           Writes(w, [workers[w] EXCEPT
                        !.group_slacks =
                            Append(@, GroupSlack(sn.ptree, workers[w].root_uuid,
                                                 g.resources, g.required_traits,
                                                 sn.usages_dict)),
                        !.group_products =
                            Append(@, GroupProduct(sn.ptree, workers[w].root_uuid,
                                                   g.resources, g.required_traits,
                                                   sn.usages_dict))])

\* After the loop: the unmet test, the policy branch, the stats summary and
\* the return.
ReturnStep(w) ==
    /\ workers[w].pc = "loop"
    /\ Len(workers[w].group_slacks) = Len(workers[w].groups)
    /\ \E score \in {HostScore(workers[w].group_slacks, workers[w].group_products,
                                 conf.policy)} :
           Writes(w, [workers[w] EXCEPT
                        !.stats = @ @@ [final_score |-> score,
                                        root_rp |-> workers[w].root_uuid,
                                        policy |-> conf.policy,
                                        groups_slacks |-> workers[w].group_slacks,
                                        groups_products |-> workers[w].group_products],
                        !.result = score,
                        !.pc = "done"])

NextWorkers ==
    \E w \in Workers :
        \/ LookupStep(w)
        \/ ExtractStep(w)
        \/ FetchStep(w)
        \/ GroupStep(w)
        \/ ReturnStep(w)

SpecWorkers == InitWorkers /\ [][NextWorkers]_vars

\* kcloud-cyborg: calls on the AICHIP driver class, with up to MaxDrivers
\* vendor driver classes defined: Furiosa's, one of another vendor, and a
\* second one for Furiosa's chips.  VENDOR_MAPS (utils.py) is one of the
\* tables that give "1ed2" a name whose upper case is FURIOSA, as
\* sysinfo.py and test_utils.py have it, or empty.
MaxDrivers == 2

DriverClasses ==
    {FuriosaAICHIPDriver,
     [name |-> "RebellionsAICHIPDriver", VENDOR |-> "rebellions"],
     [name |-> "FuriosaRNGDDriver", VENDOR |-> "furiosa"]}
RECURSIVE SeqsUpTo(_, _)
\* The sequences of at most n different members of S.
SeqsUpTo(S, n) ==
    IF n = 0 THEN {<<>>}
    ELSE {<<>>} \cup {<<x>> \o t : x \in S, t \in SeqsUpTo(S, n - 1)}
SubclassLists ==
    {l \in SeqsUpTo(DriverClasses, MaxDrivers) :
        \A i, j \in 1..Len(l) : l[i] = l[j] => i = j}
VendorMaps == {EmptyDict, ("1ed2" :> "furiosa"), ("1ed2" :> "Furiosa")}
Vendors == {"furiosa", "1ed2", "rebellions", "FURIOSA"}

InitDriver ==
    /\ driver \in [pc : {"idle"}, subclasses : SubclassLists,
                    vendor_maps : VendorMaps, vendor : Vendors,
                    raised : {"none"}, instance : {"none"}]
    /\ conf = [policy |-> "sum-fit"]
    /\ host_state = [hostname |-> TRUE]
    /\ placement = OnePlacement
    /\ weight_properties = [requested_resources |-> <<>>]
    /\ pc = "idle"
    /\ groups = <<>>
    /\ usages_dict = EmptyDict
    /\ stats = NewStats
    /\ result = Fl(0)
    /\ calls = <<>>
    /\ workers = NoWorkers

DriverWrites(rec) ==
    /\ driver' = rec
    /\ UNCHANGED <<host_state, placement, weight_properties, conf, pc, groups,
                   usages_dict, stats, result, calls, workers>>

\* AICHIPDriver.create(vendor)
CreateDriver ==
    /\ driver.pc = "idle"
    /\ \E r \in {Create(driver.subclasses, driver.vendor_maps, driver.vendor)} :
           DriverWrites([driver EXCEPT
                           !.pc = IF r.raised = "none" THEN "created" ELSE "raised",
                           !.raised = r.raised, !.instance = r.instance])

\* AICHIPDriver().discover(): the base class instantiated and asked.
DiscoverOnBase ==
    /\ driver.pc = "idle"
    /\ \E r \in {Discover(BaseDriver)} :
           DriverWrites([driver EXCEPT !.pc = "raised", !.raised = r.raised,
                                       !.instance = r.instance])

\* discover() of the driver that create returned.
DiscoverOnCreated ==
    /\ driver.pc = "created"
    /\ \E r \in {Discover(driver.instance)} :
           DriverWrites([driver EXCEPT
                           !.pc = IF r.raised = "none" THEN "discovered" ELSE "raised",
                           !.raised = r.raised, !.instance = r.instance])

NextDriver == CreateDriver \/ DiscoverOnBase \/ DiscoverOnCreated

SpecDriver == InitDriver /\ [][NextDriver]_vars

\* -------------------------------------------------- what the claims speak of

\* The call returned a score computed from the groups (none of the early
\* returns was taken).
Scored == pc = "done" /\ "final_score" \in DOMAIN stats

Max(a, b) == IF a >= b THEN a ELSE b

RECURSIVE SetSum(_, _)
\* The sum of f[x] over the set S.
SetSum(S, f) ==
    IF S = {} THEN 0
    ELSE LET x == CHOOSE y \in S : TRUE IN f[x] + SetSum(S \ {x}, f)

RECURSIVE SetProd(_, _)
SetProd(S, f) ==
    IF S = {} THEN 1
    ELSE LET x == CHOOSE y \in S : TRUE IN f[x] * SetProd(S \ {x}, f)

\* total - reserved - used, clamped at 0, for the usage map u; a total or a
\* reserved amount that the inventory does not name is 0.
FreeUnits(p, rc, u) ==
    LET inv == placement.inventory[p]
        named(key) == rc \in DOMAIN inv /\ key \in DOMAIN inv[rc]
        total == IF named("total") THEN inv[rc].total ELSE 0
        reserved == IF named("reserved") THEN inv[rc].reserved ELSE 0
        used == IF p \in DOMAIN u /\ rc \in DOMAIN u[p] THEN u[p][rc] ELSE 0
    IN  Max(total - reserved - used, 0)

\* The providers below r, at any depth: the children, their children, ...
Children(S) == {p \in Providers : placement.parent[p] \in S}
RECURSIVE Below(_, _)
Below(S, n) == IF n = 0 THEN S ELSE Below(S \cup Children(S), n - 1)
Descendants(r) == Below(Children({r}), Cardinality(Providers))

\* The providers that count for (rc, required traits ts) under root r.
Qualifying(r, rc, ts) ==
    {p \in Descendants(r) \ {r} :
        rc \in DOMAIN placement.inventory[p] /\ ts \subseteq placement.traits[p]}

TotalFree(r, rc, ts, u) ==
    SetSum(Qualifying(r, rc, ts), [p \in Providers |-> FreeUnits(p, rc, u)])

\* The signed slack of class k of group g on the snapshot of this call.
SlackOf(g, k) ==
    TotalFree(ROOT, g.resources[k].rc, g.required_traits, usages_dict)
    - g.resources[k].amount
Classes(g) == 1..Len(g.resources)
HasDeficit(g) == \E k \in Classes(g) : SlackOf(g, k) < 0
SignedSlackSum(g) == SetSum(Classes(g), [k \in Classes(g) |-> SlackOf(g, k)])

\* The product of (slack + EPS) over the classes of g, multiplied out: the
\* coefficient of EPS^j is the sum, over the sets of all but j classes, of
\* the product of their slacks.
EpsProduct(g) ==
    [ninf |-> FALSE,
     c |-> [j \in Degs |->
              LET picks == {S \in SUBSET Classes(g) :
                               Cardinality(S) = Len(g.resources) - j}
              IN  SetSum(picks,
                         [S \in picks |->
                            SetProd(S, [k \in Classes(g) |-> SlackOf(g, k)])])]]

GroupIdx == 1..Len(groups)

\* Every number of the call is held exactly: each coefficient is a digit to
\* the base EPS_INV.
Exact(x) == \A j \in Degs : -EPS_INV < x.c[j] /\ x.c[j] < EPS_INV
NumbersExact ==
    /\ Exact(result)
    /\ Scored => \A i \in GroupIdx :
                    Exact(stats.groups_slacks[i]) /\ Exact(stats.groups_products[i])

\* ------------------------------------------------------------------ claims

\* C1: under product-fit, whenever some group of the request has a class with
\* negative slack, the score returned is the UNMET sentinel.
C1_ProductFitDeficitIsUnmet ==
    (/\ Scored
     /\ conf.policy = "product-fit"
     /\ \E i \in GroupIdx : HasDeficit(groups[i]))
    => result = UNMET_FLOOR

\* C2: under sum-fit the score is the sum of the group slacks that are
\* strictly positive (each the signed sum of its classes' slacks), a group
\* with zero or negative slack adds nothing, and the score is never negative.
C2_SumFitSumsPositiveSlacks ==
    (Scored /\ conf.policy = "sum-fit" /\ \A i \in GroupIdx : groups[i].resources # <<>>)
    => LET pos == {i \in GroupIdx : SignedSlackSum(groups[i]) > 0}
       IN  /\ result = Fl(SetSum(pos, [i \in pos |-> SignedSlackSum(groups[i])]))
           /\ FGeq(result, Fl(0))

C2_Witness ==
    /\ Scored
    /\ conf.policy = "sum-fit"
    /\ Len(groups) = 2
    /\ SignedSlackSum(groups[1]) < 0
    /\ SignedSlackSum(groups[2]) > 0
    /\ result = stats.groups_slacks[2]
    /\ FPos(result)

\* C3: under product-fit, when no class of any group has negative slack, the
\* score is the sum over the groups of the product of (slack + EPS) over the
\* group's classes; one group of one class with slack s scores s + EPS.
C3_ProductFitSumsProducts ==
    (/\ Scored
     /\ conf.policy = "product-fit"
     /\ \A i \in GroupIdx : ~HasDeficit(groups[i]))
    => /\ \A j \in Degs :
            result.c[j] = SetSum(GroupIdx, [i \in GroupIdx |-> EpsProduct(groups[i]).c[j]])
       /\ ~result.ninf
       /\ (Len(groups) = 1 /\ Len(groups[1].resources) = 1)
            => result = FAdd(Fl(SlackOf(groups[1], 1)), EPS)

C3_Witness ==
    /\ Scored
    /\ conf.policy = "product-fit"
    /\ Len(groups) = 2
    /\ \A i \in GroupIdx : ~HasDeficit(groups[i])
    /\ Len(groups[1].resources) = 2
    /\ SlackOf(groups[1], 1) > 0
    /\ SlackOf(groups[1], 2) > 0
    /\ FPos(stats.groups_products[2])
    /\ result = FAdd(stats.groups_products[1], stats.groups_products[2])

\* C4: the free units of a class on a provider are max(total - reserved - used, 0),
\* used being the usage recorded for it (0 when none is), and never negative.
C4_FreeUnitsClamped ==
    pc = "done" => \A p \in Providers, rc \in RCNames, u \in {usages_dict, placement.usage} :
        \A got \in {GetFreeForRcFromTree(TreeOf(placement), p, rc, u)} :
            /\ got >= 0
            /\ got = FreeUnits(p, rc, u)

\* The call has read the free units of a provider whose recorded usage is
\* above its capacity.
C4_Witness ==
    /\ Scored
    /\ "rp1" \in DOMAIN usages_dict
    /\ AICHIP \in DOMAIN usages_dict["rp1"]
    /\ LET inv == placement.inventory["rp1"][AICHIP]
       IN  /\ inv.reserved <= inv.total
           /\ inv.total > 0
           /\ usages_dict["rp1"][AICHIP] > inv.total - inv.reserved
    /\ groups[1].resources[1].rc = AICHIP
    /\ groups[1].required_traits \subseteq placement.traits["rp1"]
    /\ GetFreeForRcFromTree(TreeOf(placement), "rp1", AICHIP, usages_dict) = 0

\* C5: total_free is the sum of the free units of exactly the non-root
\* providers of the tree, at any depth, that hold the class and carry every
\* required trait; the root's inventory never counts; never negative.
C5_TotalFreeOverQualifying ==
    pc = "done" => \A rc \in RCNames, ts \in SUBSET Traits :
        \A got \in {SumFreeForRcWithTraits(TreeOf(placement), ROOT, rc, ts, usages_dict)} :
            /\ got >= 0
            /\ got = TotalFree(ROOT, rc, ts, usages_dict)

\* A grandchild counted, the root's free units left out.
C5_Witness ==
    /\ Scored
    /\ Len(groups) = 1
    /\ groups[1].resources = <<[rc |-> AICHIP, amount |-> 1]>>
    /\ groups[1].required_traits = {}
    /\ placement.parent["rp2"] = "rp1"
    /\ FreeUnits(ROOT, AICHIP, usages_dict) > 0
    /\ FreeUnits("rp1", AICHIP, usages_dict) > 0
    /\ FreeUnits("rp2", AICHIP, usages_dict) > 0
    /\ stats.groups_slacks[1]
         = Fl(FreeUnits("rp1", AICHIP, usages_dict)
              + FreeUnits("rp2", AICHIP, usages_dict) - 1)

\* The tree with provider p's inventory of class rc taken away.
WithoutInventory(p, rc) ==
    LET tree == TreeOf(placement)
        inv == tree.inventory[p]
    IN  [tree EXCEPT !.inventory[p] = [x \in DOMAIN inv \ {rc} |-> inv[x]]]

\* C6: for a non-empty set of required traits, a provider lacking one of them
\* adds exactly 0 to total_free whatever it has free (total_free is what it
\* is without that provider's inventory); with no required trait every
\* provider of the tree holding the class adds its free units.
C6_TraitsAllOrNothing ==
    pc = "done" =>
      \A rc \in RCNames :
      \A p \in {q \in NonRoot : rc \in DOMAIN placement.inventory[q]} :
        LET with(ts) == SumFreeForRcWithTraits(TreeOf(placement), ROOT, rc, ts,
                                               usages_dict)
            without(ts) == SumFreeForRcWithTraits(WithoutInventory(p, rc), ROOT, rc,
                                                  ts, usages_dict)
        IN  /\ \A ts \in (SUBSET Traits) \ {{}} :
                 ~(ts \subseteq placement.traits[p]) => with(ts) = without(ts)
            /\ p \in Descendants(ROOT)
                 => with({}) = without({}) + FreeUnits(p, rc, usages_dict)

\* A provider with free units and one of the two required traits, left out.
C6_Witness ==
    /\ Scored
    /\ Len(groups) = 1
    /\ groups[1].resources = <<[rc |-> AICHIP, amount |-> 1]>>
    /\ groups[1].required_traits = {FURIOSA, OWNER}
    /\ placement.traits["rp1"] = {FURIOSA}
    /\ FreeUnits("rp1", AICHIP, usages_dict) = MaxTotal
    /\ Qualifying(ROOT, AICHIP, {FURIOSA, OWNER}) = {"rp2"}
    /\ stats.groups_slacks[1] = Fl(FreeUnits("rp2", AICHIP, usages_dict) - 1)

\* C7: a group with a class of negative slack has group_product exactly 0,
\* whatever the slacks of its other classes and whatever the order of the
\* classes.
C7_ProductZeroOnDeficit ==
    Scored =>
        \A i \in GroupIdx :
            HasDeficit(groups[i]) => stats.groups_products[i] = Fl(0)

\* The deficit is on the class visited last, after a class with surplus.
C7_Witness ==
    /\ Scored
    /\ Len(groups[1].resources) = 2
    /\ SlackOf(groups[1], 1) > 0
    /\ SlackOf(groups[1], 2) < 0
    /\ stats.groups_products[1] = Fl(0)

\* C8: when no class of a group has negative slack, group_product is the
\* product of (slack + EPS) over its classes and is strictly positive, also
\* with a slack of exactly 0; so group_product is 0 exactly when some class
\* has negative slack.
C8_ProductWithEpsilon ==
    Scored =>
        \A i \in GroupIdx :
            /\ ~HasDeficit(groups[i])
                 => /\ stats.groups_products[i] = EpsProduct(groups[i])
                    /\ FPos(stats.groups_products[i])
            /\ stats.groups_products[i] = Fl(0) <=> HasDeficit(groups[i])

\* Both classes of a group with slack exactly 0: the product is EPS^2.
C8_Witness ==
    /\ Scored
    /\ Len(groups[1].resources) = 2
    /\ SlackOf(groups[1], 1) = 0
    /\ SlackOf(groups[1], 2) = 0
    /\ FPos(stats.groups_products[1])
    /\ stats.groups_products[1].c[0] = 0
    /\ stats.groups_products[1].c[1] = 0

Raw == weight_properties.requested_resources
RawIdx == 1..Len(Raw)
Extracted == pc = "done" /\ LookupRootRpUuid(host_state, placement).found
\* The root resolved and the tree fetched: nothing but the request decides
\* whether the call scores.
PlacementAnswers == Extracted /\ placement.tree_fetch = "ok"

\* C11: a request with no group, and a request whose groups all have an empty
\* resources map, score 0 under either policy; a group with an empty
\* resources map never makes the score UNMET: the call scores as it does
\* without that group.
C11_EmptyInputScoresZero ==
    pc = "done" =>
        /\ Raw = <<>> => result = Fl(0)
        /\ (\A j \in RawIdx : Raw[j].resources = <<>>) => result = Fl(0)
        /\ (\E j \in RawIdx : Raw[j].resources = <<>>)
             => /\ result # UNMET_FLOOR
                /\ result =
                     WeighObjectRun(host_state,
                                    [requested_resources |->
                                        SelectSeq(Raw, LAMBDA g : g.resources # <<>>)],
                                    placement, conf, result).result

\* One group with an empty resources map, on a host whose tree is there,
\* under product-fit.
C11_Witness ==
    /\ PlacementAnswers
    /\ conf.policy = "product-fit"
    /\ Len(Raw) = 1
    /\ Raw[1].resources = <<>>
    /\ stats.groups_seen = 1
    /\ stats.groups_accel = 0
    /\ result = Fl(0)

\* C12: when the root provider is not resolved (the host has no name, the
\* lookup is not a 200 or lists no provider, fetching the tree fails, or the
\* tree fetched lacks the root) the score is 0, not UNMET, under either
\* policy and whatever the request.
RootUnresolved ==
    \/ ~host_state.hostname
    \/ placement.lookup_status # 200
    \/ placement.lookup_rps = <<>>
    \/ placement.tree_fetch # "ok"

C12_UnresolvedRootScoresZero ==
    (pc = "done" /\ RootUnresolved)
        => /\ result = Fl(0)
           /\ result # UNMET_FLOOR
           /\ "final_score" \notin DOMAIN stats

\* The root is looked up but is not in the tree fetched, for a request with
\* an accelerator group.
C12_Witness ==
    /\ pc = "done"
    /\ placement.tree_fetch = "no-root"
    /\ groups # <<>>
    /\ stats.errors = <<"root-not-in-tree">>
    /\ result = Fl(0)

\* C13: every entry of every extracted group has a class name the pattern
\* matches and a strictly positive amount, which its raw group gives for that
\* class as an integer; no raw amount that is zero, negative or fractional
\* comes out.
C13_AmountsPositiveIntegers ==
    Extracted =>
        \A i \in GroupIdx :
            \A k \in 1..Len(groups[i].resources) :
                LET e == groups[i].resources[k]
                IN  /\ RcRegexMatch(e.rc)
                    /\ e.amount > 0
                    /\ \E j \in RawIdx :
                          \E n \in 1..Len(Raw[j].resources) :
                              /\ Raw[j].resources[n].rc = e.rc
                              /\ Raw[j].resources[n].amount.kind = "int"
                              /\ Raw[j].resources[n].amount.num = e.amount

\* A raw group keeps an entry when the entry's class matches and its amount
\* converts.
Retains(g) ==
    \E k \in 1..Len(g.resources) :
        RcRegexMatch(g.resources[k].rc) /\ PyInt(g.resources[k].amount).ok
RetainedIdx == {j \in RawIdx : Retains(Raw[j])}

\* C14: a raw group that keeps no entry is not among the extracted groups,
\* every extracted group has a non-empty resources map, and every raw group
\* that keeps an entry is among them.
C14_EmptyGroupsDropped ==
    Extracted =>
        /\ \A i \in GroupIdx : groups[i].resources # <<>>
        /\ Len(groups) = Cardinality(RetainedIdx)
        /\ \A j \in RetainedIdx :
              \E i \in GroupIdx :
                  /\ groups[i].required_traits = Raw[j].required_traits
                  /\ \A k \in 1..Len(groups[i].resources) :
                        \E n \in 1..Len(Raw[j].resources) :
                            Raw[j].resources[n].rc = groups[i].resources[k].rc
        /\ "groups_accel" \in DOMAIN stats => stats.groups_accel = Len(groups)

\* The first raw group keeps nothing, the second is extracted and scored.
C14_Witness ==
    /\ Scored
    /\ Len(Raw) = 2
    /\ Raw[1].resources # <<>>
    /\ ~Retains(Raw[1])
    /\ Retains(Raw[2])
    /\ Len(groups) = 1
    /\ groups[1].required_traits = Raw[2].required_traits

\* The entries a raw group keeps, in its order, each with its amount converted.
RECURSIVE KeptEntries(_, _)
KeptEntries(g, k) ==
    IF k > Len(g.resources) THEN <<>>
    ELSE LET e == g.resources[k]
         IN  (IF RcRegexMatch(e.rc) /\ PyInt(e.amount).ok
              THEN <<[rc |-> e.rc, amount |-> PyInt(e.amount).v]>> ELSE <<>>)
             \o KeptEntries(g, k + 1)

\* C15: the extracted groups are the raw groups that keep an entry, in the
\* order of the request (group i comes from raw group f[i], f increasing),
\* each with its raw group's required traits.
C15_OrderPreserved ==
    Extracted =>
        \E f \in [GroupIdx -> RawIdx] :
            /\ \A a, b \in GroupIdx : a < b => f[a] < f[b]
            /\ {f[a] : a \in GroupIdx} = RetainedIdx
            /\ \A a \in GroupIdx :
                  /\ groups[a].required_traits = Raw[f[a]].required_traits
                  /\ groups[a].resources = KeptEntries(Raw[f[a]], 1)

\* Two raw groups kept, of different classes and different required traits.
C15_Witness ==
    /\ Scored
    /\ Len(Raw) = 2
    /\ Len(groups) = 2
    /\ Raw[1].required_traits # Raw[2].required_traits
    /\ groups[1].required_traits = Raw[1].required_traits
    /\ groups[1].resources[1].rc = FPGA
    /\ groups[2].resources[1].rc = AICHIP

\* ------------------------------------------------ claims on the whole call

\* C17: extraction never fails: whatever the raw groups (resources or traits
\* missing, amounts that are no number or None among them) it ends with a
\* list; an entry whose amount does not convert is skipped and counted, and
\* every entry that converts, of the same group or of another, is kept.
Malformed ==
    UNION {{<<j, n>> : n \in {n \in 1..Len(Raw[j].resources) :
                                 /\ RcRegexMatch(Raw[j].resources[n].rc)
                                 /\ ~PyInt(Raw[j].resources[n].amount).ok}} :
           j \in RawIdx}

C17_ExtractionNeverFails ==
    (pc # "idle" /\ LookupRootRpUuid(host_state, placement).found)
        => /\ ~ExtractRaises(Raw)
           /\ pc = "done"
           /\ stats.invalid_amounts = Cardinality(Malformed)
           /\ \A j \in RawIdx :
                 \A n \in 1..Len(Raw[j].resources) :
                     LET e == Raw[j].resources[n]
                     IN  (RcRegexMatch(e.rc) /\ PyInt(e.amount).ok)
                            => \E i \in GroupIdx :
                                  \E k \in 1..Len(groups[i].resources) :
                                      /\ groups[i].resources[k].rc = e.rc
                                      /\ groups[i].resources[k].amount
                                           = PyInt(e.amount).v

\* C18: a scoring call never raises to its caller: whatever is wrong with the
\* data (root unresolved, tree fetch failing, root not in the tree, usage
\* queries failing or naming no usage, inventory naming no total or no
\* reserved amount, usage above capacity, malformed groups), it returns a
\* number: 0, a finite score, or UNMET.
C18_CallNeverRaises ==
    /\ pc # "raised"
    /\ \A i \in 1..Len(calls) : ~calls[i].raised
    /\ pc = "done" => (result = UNMET_FLOOR \/ (~result.ninf /\ Exact(result)))

\* The orders in which n groups can come.
GroupOrders(n) ==
    {f \in [1..n -> 1..n] : \A a, b \in 1..n : a # b => f[a] # f[b]}

MoreFree(p, rc) ==
    LET tree == TreeOf(placement)
        inv == tree.inventory[p]
        has(key) == rc \in DOMAIN inv /\ key \in DOMAIN inv[rc]
        used == p \in DOMAIN usages_dict /\ rc \in DOMAIN usages_dict[p]
    IN  (IF has("total")
         THEN {[tree |-> [tree EXCEPT !.inventory[p][rc].total = @ + 1],
                usages |-> usages_dict]}
         ELSE {})
        \cup (IF has("reserved") /\ inv[rc].reserved > 0
              THEN {[tree |-> [tree EXCEPT !.inventory[p][rc].reserved = @ - 1],
                     usages |-> usages_dict]}
              ELSE {})
        \cup (IF used /\ usages_dict[p][rc] > 0
              THEN {[tree |-> tree,
                     usages |-> [usages_dict EXCEPT ![p][rc] = @ - 1]]}
              ELSE {})

\* C19: for a group, on a tree that differs from another only by a provider
\* having more free units of a class of the group, group_slack and
\* group_product are each at least what they are on the other tree.
C19_Monotone ==
    Scored =>
        \A i \in GroupIdx, p \in NonRoot, rc \in AccelRCs :
            \A more \in MoreFree(p, rc) :
                LET g == groups[i]
                IN  /\ FGeq(GroupSlack(more.tree, ROOT, g.resources,
                                       g.required_traits, more.usages),
                            stats.groups_slacks[i])
                    /\ FGeq(GroupProduct(more.tree, ROOT, g.resources,
                                         g.required_traits, more.usages),
                            stats.groups_products[i])

\* One more unit takes a class of the group out of its deficit while the
\* group's other class has a surplus: the product rises from 0 and the slack
\* by 1.
C19_Witness ==
    /\ Scored
    /\ Len(groups[1].resources) = 2
    /\ groups[1].required_traits = {}
    /\ SlackOf(groups[1], 1) = -1
    /\ SlackOf(groups[1], 2) > 0
    /\ stats.groups_products[1] = Fl(0)
    /\ \E more \in MoreFree("rp1", AICHIP) :
          /\ more.usages # usages_dict
          /\ FPos(GroupProduct(more.tree, ROOT, groups[1].resources, {}, more.usages))
          /\ GroupSlack(more.tree, ROOT, groups[1].resources, {}, more.usages)
               = FAdd(stats.groups_slacks[1], Fl(1))

\* What a call was given.
InputsOf(call) ==
    <<call.host_state, call.weight_properties, call.placement, call.conf>>

Weighted(m, x) ==
    IF ~x.ninf THEN [kind |-> "finite", c |-> [i \in Degs |-> m * x.c[i]]]
    ELSE IF m > 0 THEN [kind |-> "-inf", c |-> x.c]
    ELSE IF m < 0 THEN [kind |-> "+inf", c |-> x.c]
    ELSE [kind |-> "nan", c |-> x.c]

Requests == calls[Len(calls)].requests
RequestsOf(op) == {k \in 1..Len(Requests) : Requests[k].op = op}

\* C23: a scoring call fetches the provider tree at most once and asks each
\* provider's usages at most once; it does so only with the root resolved
\* and a group extracted (after the lookup, the usages after the tree), and
\* not at all when the root is unresolved or no accelerator group exists;
\* every group's slack and product is computed on the tree and the usages
\* of that one fetch.
C23_OneSnapshotPerCall ==
    pc \in {"done", "raised"} =>
        /\ Cardinality(RequestsOf("tree")) <= 1
        /\ \A k, l \in RequestsOf("usages") : Requests[k].rp = Requests[l].rp => k = l
        /\ \A k \in RequestsOf("tree") \cup RequestsOf("usages") :
              /\ LookupRootRpUuid(host_state, placement).found
              /\ groups # <<>>
              /\ \E l \in RequestsOf("lookup") : l < k
        /\ \A k \in RequestsOf("usages") : \E l \in RequestsOf("tree") : l < k
        /\ (~LookupRootRpUuid(host_state, placement).found \/ groups = <<>>)
              => RequestsOf("tree") \cup RequestsOf("usages") = {}
        /\ Scored =>
              /\ usages_dict = CollectUsages(placement, ROOT)
              /\ \A i \in GroupIdx :
                    /\ stats.groups_slacks[i]
                         = GroupSlack(TreeOf(placement), ROOT, groups[i].resources,
                                      groups[i].required_traits, usages_dict)
                    /\ stats.groups_products[i]
                         = GroupProduct(TreeOf(placement), ROOT, groups[i].resources,
                                        groups[i].required_traits, usages_dict)

\* Two groups, the second of two classes, scored on one tree fetch and one
\* usage query for each of the two providers below the root.
C23_Witness ==
    /\ Scored
    /\ Len(groups) = 2
    /\ Len(groups[2].resources) = 2
    /\ Cardinality(RequestsOf("tree")) = 1
    /\ Cardinality(RequestsOf("usages")) = 2

\* C24: a scoring call changes nothing it was given: when it has ended, the
\* provider tree (parents, inventories, traits), the usages Placement holds,
\* the request's raw groups (resources and required traits), the host and
\* the configuration are as they were handed to it; what it wrote is its
\* own stats record and locals.
C24_InputsUntouched ==
    pc \in {"done", "raised"} =>
        \A call \in {calls[Len(calls)]} :
            /\ TreeOf(placement) = TreeOf(call.placement)
            /\ placement.usage = call.placement.usage
            /\ placement = call.placement
            /\ Raw = call.weight_properties.requested_resources
            /\ host_state = call.host_state
            /\ conf = call.conf

\* A call that scored two groups, one of them under required traits, on
\* usages it fetched, and wrote its stats.
C24_Witness ==
    /\ Scored
    /\ Len(Raw) = 2
    /\ Len(groups) = 2
    /\ \E i \in GroupIdx : groups[i].required_traits # {}
    /\ DOMAIN usages_dict # {}
    /\ stats # NewStats

\* What worker w's call gives when it runs with no call beside it.
Alone(w) ==
    WeighObjectRun(workers[w].host_state, workers[w].weight_properties,
                   workers[w].placement, conf, Fl(0))

Matching ==
    {i \in 1..Len(driver.subclasses) :
        driver.subclasses[i].VENDOR
            = (IF driver.vendor \in DOMAIN driver.vendor_maps
               THEN driver.vendor_maps[driver.vendor] ELSE driver.vendor)}

\* C26: AICHIPDriver.create(vendor) returns an instance of a defined driver
\* subclass whose VENDOR is the vendor (a vendor id being mapped to its
\* name first), the first of them, and raises LookupError when there is
\* none; discover() of the base class raises NotImplementedError.
C26_CreateByVendor ==
    /\ driver.pc = "created" =>
          /\ Matching # {}
          /\ driver.raised = "none"
          /\ \E i \in Matching :
                /\ driver.instance = driver.subclasses[i].name
                /\ \A j \in Matching : i <= j
    /\ (driver.pc = "raised" /\ driver.instance = "none") =>
          /\ Matching = {}
          /\ driver.raised = "LookupError"
    /\ (driver.pc = "raised" /\ driver.instance = BaseDriver) =>
          driver.raised = "NotImplementedError"
    /\ driver.pc = "discovered" => driver.instance # BaseDriver

\* The vendor id 1ed2 asked for, with Furiosa's driver defined after another
\* vendor's: the call returns a FuriosaAICHIPDriver.
C26_Witness ==
    /\ driver.pc = "created"
    /\ driver.vendor = "1ed2"
    /\ Len(driver.subclasses) = 2
    /\ driver.subclasses[2] = FuriosaAICHIPDriver
    /\ driver.instance = "FuriosaAICHIPDriver"

\* ------------------------------------------- claims on what the code implies

\* C27: through _weigh_object the UNMET sentinel is never returned: every
\* group the extractor emits has a resource class, so no group_slack is
\* UNMET, and every score returned, for every host, request and policy, is
\* a finite number.
C27_UnmetNeverReturned ==
    pc = "done" =>
        /\ result # UNMET_FLOOR
        /\ ~result.ninf
        /\ Exact(result)
        /\ \A i \in GroupIdx : groups[i].resources # <<>>
        /\ Scored => \A i \in GroupIdx : /\ stats.groups_slacks[i] # UNMET_FLOOR
                                          /\ ~stats.groups_slacks[i].ninf

\* A request holding a group with no resources beside a group the host
\* cannot meet: the score returned is a number.
C27_Witness ==
    /\ Scored
    /\ \E j \in RawIdx : Raw[j].resources = <<>>
    /\ Len(groups) = 1
    /\ HasDeficit(groups[1])
    /\ ~result.ninf

\* sum(group_products), as the call computed the products.
SumOfProducts == FSum(stats.groups_products)

\* C28: the sum of the group products is never negative; it is above 0
\* exactly when some group has no class with negative slack, and 0 exactly
\* when every group has a class with negative slack; under product-fit it
\* is the score.
C28_ProductSumSign ==
    Scored =>
        /\ FGeq(SumOfProducts, Fl(0))
        /\ FPos(SumOfProducts) <=> (\E i \in GroupIdx : ~HasDeficit(groups[i]))
        /\ SumOfProducts = Fl(0) <=> (\A i \in GroupIdx : HasDeficit(groups[i]))
        /\ conf.policy = "product-fit" => result = SumOfProducts

\* Under product-fit, two groups of which the first is in deficit and the
\* second is not: the sum is the second's product, above 0.
C28_Witness ==
    /\ Scored
    /\ conf.policy = "product-fit"
    /\ Len(groups) = 2
    /\ HasDeficit(groups[1])
    /\ ~HasDeficit(groups[2])
    /\ FPos(result)

UsagesFailedAsNone ==
    [p \in Descendants(ROOT) |->
        IF placement.usage_status[p] = 200 THEN placement.usage[p] ELSE EmptyDict]

\* C30: a non-root provider whose usage query is not answered with 200 has
\* no entry in the usages and counts with no usage: its free units are
\* max(total - reserved, 0); it stays among the providers summed and the
\* call goes on to its score.
C30_FailedUsageCountsAsNone ==
    (pc = "done" /\ PlacementAnswers /\ groups # <<>>) =>
        /\ Scored
        /\ \A p \in Descendants(ROOT) :
              placement.usage_status[p] # 200 =>
                  /\ p \notin DOMAIN usages_dict
                  /\ \A rc \in DOMAIN placement.inventory[p] :
                        GetFreeForRcFromTree(TreeOf(placement), p, rc, usages_dict)
                            = Max(placement.inventory[p][rc].total
                                    - placement.inventory[p][rc].reserved, 0)
        /\ \A i \in GroupIdx :
              stats.groups_slacks[i]
                = Fl(SetSum(Classes(groups[i]),
                            [k \in Classes(groups[i]) |->
                                TotalFree(ROOT, groups[i].resources[k].rc,
                                          groups[i].required_traits,
                                          UsagesFailedAsNone)
                                - groups[i].resources[k].amount]))

\* rp1's usage query fails while all of rp1 is in use: the group is scored
\* with rp1's two units free.
C30_Witness ==
    /\ Scored
    /\ placement.usage_status["rp1"] # 200
    /\ placement.usage["rp1"][AICHIP] = MaxTotal
    /\ placement.inventory["rp1"][AICHIP] = Inv(MaxTotal, 0)
    /\ placement.inventory["rp2"] = EmptyDict
    /\ groups[1].required_traits \subseteq placement.traits["rp1"]
    /\ groups[1].resources[1].amount = 1
    /\ stats.groups_slacks[1] = Fl(MaxTotal - 1)

=============================================================================
